---- MODULE Spec2Model ----
(***************************************************************************)
(* Budget tracker: the Express/MySQL expense API (backend/server.js), the  *)
(* axios client hook (hooks/useApi.ts), the screens that use them          *)
(* (app/(tabs)/index.tsx, app/(tabs)/expenses.tsx), and the on-device      *)
(* AsyncStorage workflows (add-expense, budget-setup, onboarding and the   *)
(* local-only ExpensesScreen / HomeScreen).                                *)
(*                                                                         *)
(* Amounts are whole currency units.  A JS number is a record              *)
(* [nan, v]; a text typed into a TextInput is a sequence of characters; an *)
(* optional JSON field is a sequence of length 0 (absent) or 1.            *)
(* A date string is a record [valid, t]: t is the instant in               *)
(* milliseconds when the string parses, valid = FALSE when it does not.    *)
(***************************************************************************)
EXTENDS Integers, Sequences, FiniteSets, TLC

\* ---------------------------------------------------------------- bounds
\* Largest AUTO_INCREMENT id the model lets POST /expenses hand out.
MaxId == 2
\* Largest value of the device clock (Date.now()).
MaxClock == 2
\* Largest number of records the model lets the 'expenses' blob hold.
MaxLocal == 2
\* Largest budget and largest single amount of the calculator inputs.
MaxBudget == 10
MaxAmount == 5
\* Longest expense list of the calculator inputs.
MaxList == 3
\* Largest value the model lets AddExpense's currentExpenses reach.
MaxSpent == 4
\* Longest list of amounts with a fraction that is summed.
MaxTerms == 3
\* Longest list the recent-expenses view is computed from.
MaxRecent == 6

\* ------------------------------------------------------ program constants
\* toISOString() has millisecond precision, DATETIME has second precision:
\* slice(0, 19) drops the fraction.
MsPerSecond == 1000

\* ------------------------------------------------------------- JS values
NaN == [nan |-> TRUE, v |-> 0]
Num(n) == [nan |-> FALSE, v |-> n]
isNaN(x) == x.nan

Absent == <<>>
Some(x) == <<x>>

IsoDate(t) == [valid |-> TRUE, t |-> t]
InvalidDate == [valid |-> FALSE, t |-> 0]

Digits == {"0", "1", "2", "3", "4", "5", "6", "7", "8", "9"}

DigitValue(c) ==
  CASE c = "0" -> 0 [] c = "1" -> 1 [] c = "2" -> 2 [] c = "3" -> 3
    [] c = "4" -> 4 [] c = "5" -> 5 [] c = "6" -> 6 [] c = "7" -> 7
    [] c = "8" -> 8 [] c = "9" -> 9

\* Length of the longest prefix of s made of digits.
RECURSIVE DigitPrefixLen(_)
DigitPrefixLen(s) ==
  IF s = <<>> \/ Head(s) \notin Digits THEN 0 ELSE 1 + DigitPrefixLen(Tail(s))

RECURSIVE DigitsToInt(_, _)
DigitsToInt(s, acc) ==
  IF s = <<>> THEN acc ELSE DigitsToInt(Tail(s), acc * 10 + DigitValue(Head(s)))

\* parseFloat on a text without a decimal point: optional sign, then the
\* longest run of digits; anything after it is ignored; NaN when there is
\* no digit.
parseFloat(s) ==
  LET neg == s # <<>> /\ Head(s) = "-"
      signed == s # <<>> /\ Head(s) \in {"-", "+"}
      rest == IF signed THEN Tail(s) ELSE s
      n == DigitPrefixLen(rest)
  IN IF n = 0 THEN NaN
     ELSE Num((IF neg THEN -1 ELSE 1) * DigitsToInt(SubSeq(rest, 1, n), 0))

\* Number.prototype.toString of a whole number: a minus sign for a
\* negative one, then its decimal digits.
DigitChar(d) ==
  CASE d = 0 -> "0" [] d = 1 -> "1" [] d = 2 -> "2" [] d = 3 -> "3"
    [] d = 4 -> "4" [] d = 5 -> "5" [] d = 6 -> "6" [] d = 7 -> "7"
    [] d = 8 -> "8" [] d = 9 -> "9"

RECURSIVE IntToDigits(_)
IntToDigits(n) ==
  IF n < 10 THEN <<DigitChar(n)>>
  ELSE Append(IntToDigits(n \div 10), DigitChar(n % 10))

toString(n) == IF n < 0 THEN <<"-">> \o IntToDigits(-n) ELSE IntToDigits(n)

\* String.prototype.trim on a text.
RECURSIVE TrimLeft(_)
TrimLeft(s) == IF s # <<>> /\ Head(s) = " " THEN TrimLeft(Tail(s)) ELSE s

RECURSIVE TrimRight(_)
TrimRight(s) ==
  IF s # <<>> /\ s[Len(s)] = " " THEN TrimRight(SubSeq(s, 1, Len(s) - 1)) ELSE s

trim(s) == TrimRight(TrimLeft(s))

\* ------------------------------------------------------------ input sets
CATEGORIES == {"Food", "Transportation"}

\* Texts a user can leave in an amount field.
AmountTexts ==
  { <<>>, <<"a">>, <<"0">>, <<"-", "1">>, <<"1">>, <<"2">>, <<"1", "a">> }

\* Texts a user can leave in a note field.
NoteTexts == { <<>>, <<" ", "n", " ">> }


\* Request bodies a caller of useApi.addExpense can send.
Body(amount, category, note, date) ==
  [amount |-> amount, category |-> category, note |-> note, date |-> date]

PostBodies ==
  { Body(Some(1), Some("Food"), Some(<<"n">>), Some(IsoDate(1500))),
    Body(Some(2), Some("Food"), Absent, Some(IsoDate(1500))),
    Body(Some(-1), Some("Food"), Some(<<"n">>), Some(IsoDate(1500))),
    Body(Some(0), Some("Food"), Some(<<"n">>), Some(IsoDate(1500))),
    Body(Absent, Some("Food"), Some(<<"n">>), Some(IsoDate(1500))),
    Body(Some(1), Absent, Some(<<"n">>), Some(IsoDate(1500))),
    Body(Some(1), Some(""), Some(<<"n">>), Some(IsoDate(1500))),
    Body(Some(1), Some("Food"), Some(<<"n">>), Absent),
    Body(Some(1), Some("Food"), Some(<<"n">>), Some(InvalidDate)) }

\* ----------------------------------------------------------------- state
VARIABLES
  db,                  \* server: rows of table expenses, in primary-key order
  nextId,              \* server: AUTO_INCREMENT counter of expenses.id
  tzOffset,            \* server: seconds its local time is ahead of UTC
  response,            \* the last HTTP exchange: method, path, status (0: none)
  alert,               \* the last Alert.alert shown: title and message
  route,               \* the last route handed to router.push / router.replace
  console,             \* the last message handed to console.error ("": none)
  storage,             \* AsyncStorage: budget_type, budget_amount, expenses
  now,                 \* the device clock, Date.now()
  es_expenses,         \* ExpensesScreen (API): expenses
  editingExpense,      \* ExpensesScreen (API): editingExpense, Absent when null
  home_expenses,       \* HomeScreen (API): expenses
  home_budget,         \* HomeScreen (API): budget
  home_budgetType,     \* HomeScreen (API): budgetType, Absent when null
  home_totalExpenses,  \* HomeScreen (API): totalExpenses
  view,                \* HomeScreen (API): what the last render showed
  add_budget,          \* AddExpense: budget
  add_currentExpenses, \* AddExpense: currentExpenses
  add_budgetType,      \* AddExpense: budgetType, Absent when null
  pendingExpense,      \* AddExpense: pendingExpense, Absent when null
  showBudgetWarning,   \* AddExpense: showBudgetWarning
  local_expenses       \* ExpensesScreen (local storage): expenses

serverVars == <<db, nextId>>
outVars == <<response, alert, route, console>>
esVars == <<es_expenses, editingExpense>>
homeVars == <<home_expenses, home_budget, home_budgetType, home_totalExpenses>>
addVars ==
  <<add_budget, add_currentExpenses, add_budgetType, pendingExpense, showBudgetWarning>>
vars ==
  <<serverVars, tzOffset, outVars, storage, now, esVars, homeVars, view, addVars, local_expenses>>

NoAlert == [title |-> "", message |-> ""]
Alert(title, message) == [title |-> title, message |-> message]
NoResponse == [method |-> "", path |-> "", status |-> 0]
NotRendered ==
  [totalSpent |-> 0, remaining |-> 0, percentageUsed |-> 0, status |-> "",
   budget |-> 0, ids |-> {}, allowance |-> Absent, recentExpenses |-> <<>>]

\* The state after the server has created the table and the screens were
\* constructed on a device with empty storage.
\* Everything but the server's time zone and HomeScreen's list, budget
\* and total.
InitOutsideZone ==
  /\ db = <<>>
  /\ nextId = 1
  /\ response = NoResponse
  /\ alert = NoAlert
  /\ route = ""
  /\ console = ""
  /\ storage = [budget_type |-> Absent, budget_amount |-> Absent, expenses |-> Absent]
  /\ now = 1
  /\ es_expenses = <<>>
  /\ editingExpense = Absent
  /\ home_budgetType = Absent
  /\ view = NotRendered
  /\ add_budget = 0
  /\ add_currentExpenses = 0
  /\ add_budgetType = Absent
  /\ pendingExpense = Absent
  /\ showBudgetWarning = FALSE
  /\ local_expenses = <<>>

\* The server of every specification but SpecDates runs in UTC.
InitOutsideTotals ==
  /\ InitOutsideZone
  /\ tzOffset = 0

InitOutsideHome ==
  /\ InitOutsideTotals
  /\ home_totalExpenses = 0

Init ==
  /\ InitOutsideHome
  /\ home_expenses = <<>>
  /\ home_budget = 0

\* ---------------------------------------------------------------- server
\* JS truthiness of an optional body field, by the type of its value.
FalsyNumber(f) == f = Absent \/ f[1] = 0
FalsyString(f) == f = Absent \/ f[1] = ""
FalsyDate(f) == f = Absent

\* The records of a list whose id is not the given one, in order.
RECURSIVE WithoutId(_, _)
WithoutId(rows, id) ==
  IF rows = <<>> THEN <<>>
  ELSE IF Head(rows).id # id THEN <<Head(rows)>> \o WithoutId(Tail(rows), id)
       ELSE WithoutId(Tail(rows), id)

Ids(rows) == { rows[i].id : i \in 1..Len(rows) }

Reply(status, rows, table, counter) ==
  [status |-> status, rows |-> rows, db |-> table, nextId |-> counter]

\* new Date(date).toISOString().slice(0, 19).replace('T', ' '): the UTC
\* instant cut to whole seconds.
formattedDate(date) == date.t \div MsPerSecond

\* The driver hands a DATETIME to the route as a Date: it reads the stored
\* wall clock as the local time of the server, and res.json writes that
\* instant as an ISO text.
DateOfColumn(stored) == IsoDate((stored - tzOffset) * MsPerSecond)

\* SELECT * FROM expenses, amount through parseFloat, date as JSON.
GetExpenses(table, counter) ==
  Reply(200,
        [i \in 1..Len(table) |->
           [id |-> table[i].id, amount |-> table[i].amount,
            category |-> table[i].category, note |-> table[i].note,
            date |-> DateOfColumn(table[i].date)]],
        table, counter)

PostExpenses(body, table, counter) ==
  IF FalsyNumber(body.amount) \/ FalsyString(body.category) \/ FalsyDate(body.date)
  THEN Reply(400, <<>>, table, counter)
  ELSE IF ~body.date[1].valid
  THEN Reply(500, <<>>, table, counter)
  ELSE Reply(201, <<>>,
             Append(table, [id |-> counter, amount |-> body.amount[1],
                            category |-> body.category[1], note |-> body.note,
                            date |-> formattedDate(body.date[1])]),
             counter + 1)

DeleteExpenseById(id, table, counter) ==
  Reply(204, <<>>, WithoutId(table, id), counter)

\* A clear that answers 404 when there is nothing to delete.
DeleteExpenses_rejectsEmpty(table, counter) ==
  IF table = <<>> THEN Reply(404, <<>>, table, counter)
  ELSE Reply(204, <<>>, <<>>, counter)

DeleteExpenses(table, counter) == Reply(204, <<>>, <<>>, counter)

\* Express answers 404 to a request no registered route matches.
NoRoute(table, counter) == Reply(404, <<>>, table, counter)

\* The routes with a PUT /expenses/:id that replaces the row or, when the
\* id is missing, inserts it.
Routes_putUpserts(req, table, counter) ==
  IF req.method = "GET" /\ req.path = "/expenses"
  THEN GetExpenses(table, counter)
  ELSE IF req.method = "POST" /\ req.path = "/expenses"
  THEN PostExpenses(req.body, table, counter)
  ELSE IF req.method = "PUT" /\ req.path = "/expenses/:id"
  THEN Reply(200, <<>>,
             Append(WithoutId(table, req.id),
                    [id |-> req.id, amount |-> req.body.amount[1],
                     category |-> req.body.category[1], note |-> req.body.note,
                     date |-> formattedDate(req.body.date[1])]),
             counter)
  ELSE IF req.method = "DELETE" /\ req.path = "/expenses/:id"
  THEN DeleteExpenseById(req.id, table, counter)
  ELSE IF req.method = "DELETE" /\ req.path = "/expenses"
  THEN DeleteExpenses(table, counter)
  ELSE NoRoute(table, counter)

\* The routes in registration order.
Routes(req, table, counter) ==
  IF req.method = "GET" /\ req.path = "/expenses"
  THEN GetExpenses(table, counter)
  ELSE IF req.method = "POST" /\ req.path = "/expenses"
  THEN PostExpenses(req.body, table, counter)
  ELSE IF req.method = "DELETE" /\ req.path = "/expenses/:id"
  THEN DeleteExpenseById(req.id, table, counter)
  ELSE IF req.method = "DELETE" /\ req.path = "/expenses"
  THEN DeleteExpenses(table, counter)
  ELSE NoRoute(table, counter)

NoBody == Body(Absent, Absent, Absent, Absent)

Request(method, path, id, body) ==
  [method |-> method, path |-> path, id |-> id, body |-> body]

\* What the network does with one axios call: it delivers request and
\* answer, it drops the request, or it drops the answer after the server
\* has handled the request.
Network == {"ok", "down", "lost"}

\* One axios call against a server whose table is `table`; status 0 stands
\* for no answer.
Send(req, up, table, counter) ==
  LET res == Routes(req, table, counter)
  IN CASE up = "ok" -> res
       [] up = "lost" -> Reply(0, <<>>, res.db, res.nextId)
       [] up = "down" -> Reply(0, <<>>, table, counter)

\* axios rejects on a network error and on every status outside 2xx.
Threw(res) == res.status < 200 \/ res.status > 299

Exchange(req, res) == [method |-> req.method, path |-> req.path, status |-> res.status]

\* ---------------------------------------------------------------- useApi
\* The four calls of the hook, made by any holder of it; the model hands
\* out ids up to MaxId.
addExpense(expense) ==
  \E up \in Network :
    LET req == Request("POST", "/expenses", 0, expense)
        res == Send(req, up, db, nextId)
    IN /\ res.nextId <= MaxId + 1
       /\ db' = res.db
       /\ nextId' = res.nextId
       /\ response' = Exchange(req, res)
       /\ UNCHANGED <<alert, route, storage, now, tzOffset, console, esVars, homeVars, view, addVars,
                      local_expenses>>

deleteExpense(id) ==
  \E up \in Network :
    LET req == Request("DELETE", "/expenses/:id", id, NoBody)
        res == Send(req, up, db, nextId)
    IN /\ db' = res.db
       /\ nextId' = res.nextId
       /\ response' = Exchange(req, res)
       /\ UNCHANGED <<alert, route, storage, now, tzOffset, console, esVars, homeVars, view, addVars,
                      local_expenses>>

clearAllExpenses ==
  \E up \in Network :
    LET req == Request("DELETE", "/expenses", 0, NoBody)
        res == Send(req, up, db, nextId)
    IN /\ db' = res.db
       /\ nextId' = res.nextId
       /\ response' = Exchange(req, res)
       /\ UNCHANGED <<alert, route, storage, now, tzOffset, console, esVars, homeVars, view, addVars,
                      local_expenses>>

updateExpense(id, updatedExpense) ==
  \E up \in Network :
    LET req == Request("PUT", "/expenses/:id", id, updatedExpense)
        res == Send(req, up, db, nextId)
    IN /\ db' = res.db
       /\ nextId' = res.nextId
       /\ response' = Exchange(req, res)
       /\ UNCHANGED <<alert, route, storage, now, tzOffset, console, esVars, homeVars, view, addVars,
                      local_expenses>>


\* ------------------------------------------- ExpensesScreen (API variant)
FetchFailed ==
  Alert("Error",
        "Failed to fetch expenses. Please check your network connection or try again later.")

\* What loadExpenses leaves in expenses and in the alert, given the answer
\* to fetchExpenses (which throws unless the status is 200).
LoadedExpenses(res) == IF res.status = 200 THEN res.rows ELSE es_expenses
LoadedAlert(res, shown) == IF res.status = 200 THEN shown ELSE FetchFailed
LoadedConsole(res, logged) ==
  IF res.status = 200 THEN logged ELSE "Error loading expenses:"

\* Mount, focus and pull-to-refresh all run loadExpenses.
loadExpenses ==
  \E up \in Network :
    LET req == Request("GET", "/expenses", 0, NoBody)
        res == Send(req, up, db, nextId)
    IN /\ es_expenses' = LoadedExpenses(res)
       /\ alert' = LoadedAlert(res, alert)
       /\ console' = LoadedConsole(res, console)
       /\ response' = Exchange(req, res)
       /\ UNCHANGED <<serverVars, route, storage, now, tzOffset, editingExpense, homeVars, view,
                      addVars, local_expenses>>

Elements(list) == { list[i] : i \in 1..Len(list) }

openEditModal(expense) ==
  /\ expense \in Elements(es_expenses)
  /\ editingExpense' = Some(expense)
  /\ UNCHANGED <<serverVars, outVars, storage, now, tzOffset, es_expenses, homeVars, view,
                 addVars, local_expenses>>

closeEditModal ==
  /\ editingExpense # Absent
  /\ editingExpense' = Absent
  /\ UNCHANGED <<serverVars, outVars, storage, now, tzOffset, es_expenses, homeVars, view,
                 addVars, local_expenses>>

\* The check with < in place of <=.
InvalidAmount_acceptsZero(amount) == isNaN(amount) \/ amount.v < 0

\* The amount check shared by the add form, the edit modal and budget setup.
InvalidAmount(amount) == isNaN(amount) \/ amount.v <= 0

\* expenses.map(expense => expense.id === id ? {...expense, ...updated} : expense)
MergeInto(list, id, updated) ==
  [i \in 1..Len(list) |->
     IF list[i].id = id
     THEN [id |-> list[i].id, amount |-> updated.amount[1],
           category |-> updated.category[1], note |-> updated.note,
           date |-> updated.date[1]]
     ELSE list[i]]

\* Save in the edit modal; editAmount, editCategory and editNote are the
\* fields as the user left them.
saveEditedExpense(editAmount, editCategory, editNote) ==
  /\ editingExpense # Absent
  /\ LET amount == parseFloat(editAmount)
         editing == editingExpense[1]
     IN IF InvalidAmount(amount)
        THEN /\ alert' = Alert("Invalid Amount", "Please enter a valid expense amount")
             /\ UNCHANGED <<serverVars, response, route, esVars>>
        ELSE IF editCategory = ""
        THEN /\ alert' = Alert("Missing Category", "Please select a category")
             /\ UNCHANGED <<serverVars, response, route, esVars>>
        ELSE \E up \in Network :
          LET updatedExpense ==
                [amount |-> Some(amount.v), category |-> Some(editCategory),
                 note |-> Some(trim(editNote)), date |-> Some(editing.date)]
              req == Request("PUT", "/expenses/:id", editing.id, updatedExpense)
              res == Send(req, up, db, nextId)
          IN /\ db' = res.db
             /\ nextId' = res.nextId
             /\ response' = Exchange(req, res)
             /\ route' = route
             /\ IF Threw(res)
                THEN /\ alert' = Alert("Error", "Failed to update expense")
                     /\ UNCHANGED esVars
                ELSE /\ es_expenses' = MergeInto(es_expenses, editing.id, updatedExpense)
                     /\ editingExpense' = Absent
                     /\ alert' = Alert("Success", "Expense updated successfully!")
  /\ UNCHANGED <<storage, now, tzOffset, console, homeVars, view, addVars, local_expenses>>

\* The delete button of a listed expense: deleteExpense, then loadExpenses.
deleteExpenseHandler(expenseId) ==
  /\ expenseId \in Ids(es_expenses)
  /\ \E up \in Network, upLoad \in Network :
       LET req == Request("DELETE", "/expenses/:id", expenseId, NoBody)
           res == Send(req, up, db, nextId)
           reqLoad == Request("GET", "/expenses", 0, NoBody)
           resLoad == Send(reqLoad, upLoad, res.db, res.nextId)
       IN /\ db' = res.db
          /\ nextId' = res.nextId
          /\ IF Threw(res)
             THEN /\ alert' = Alert("Error", "Failed to delete expense")
                  /\ response' = Exchange(req, res)
                  /\ UNCHANGED <<es_expenses, console>>
             ELSE /\ es_expenses' = LoadedExpenses(resLoad)
                  /\ alert' = LoadedAlert(resLoad, alert)
                  /\ console' = LoadedConsole(resLoad, console)
                  /\ response' = Exchange(reqLoad, resLoad)
  /\ UNCHANGED <<route, storage, now, tzOffset, editingExpense, homeVars, view, addVars,
                 local_expenses>>

\* A 'Clear All' that empties the list before the answer is known.
clearAllExpensesHandler_optimistic ==
  /\ Len(es_expenses) > 0
  /\ \E up \in Network :
       LET req == Request("DELETE", "/expenses", 0, NoBody)
           res == Send(req, up, db, nextId)
       IN /\ db' = res.db
          /\ nextId' = res.nextId
          /\ response' = Exchange(req, res)
          /\ es_expenses' = <<>>
          /\ alert' = IF Threw(res) THEN Alert("Error", "Failed to clear expenses")
                      ELSE Alert("Success", "All expenses cleared!")
  /\ UNCHANGED <<route, storage, now, tzOffset, console, editingExpense, homeVars, view, addVars,
                 local_expenses>>

\* 'Clear All' confirmed; the button is rendered when the list is not empty.
clearAllExpensesHandler ==
  /\ Len(es_expenses) > 0
  /\ \E up \in Network :
       LET req == Request("DELETE", "/expenses", 0, NoBody)
           res == Send(req, up, db, nextId)
       IN /\ db' = res.db
          /\ nextId' = res.nextId
          /\ response' = Exchange(req, res)
          /\ IF Threw(res)
             THEN /\ alert' = Alert("Error", "Failed to clear expenses")
                  /\ UNCHANGED es_expenses
             ELSE /\ es_expenses' = <<>>
                  /\ alert' = Alert("Success", "All expenses cleared!")
  /\ UNCHANGED <<route, storage, now, tzOffset, console, editingExpense, homeVars, view, addVars,
                 local_expenses>>


\* ---------------------------------------------- HomeScreen (API variant)
RECURSIVE SumAmounts(_)
SumAmounts(list) ==
  IF list = <<>> THEN 0 ELSE Head(list).amount + SumAmounts(Tail(list))

\* storedBudget ? parseFloat(storedBudget) : 0; the stored text passed the
\* setup check, so it parses.
StoredBudget(stored) == IF stored = Absent THEN 0 ELSE parseFloat(stored[1]).v

\* Mount, focus and pull-to-refresh all run loadData: the budget is set
\* before the fetch, the list and the total after it succeeded.
loadData ==
  \E up \in Network :
    LET req == Request("GET", "/expenses", 0, NoBody)
        res == Send(req, up, db, nextId)
    IN /\ home_budgetType' = storage.budget_type
       /\ home_budget' = StoredBudget(storage.budget_amount)
       /\ response' = Exchange(req, res)
       /\ IF res.status = 200
          THEN /\ home_expenses' = res.rows
               /\ home_totalExpenses' = SumAmounts(res.rows)
               /\ alert' = alert
               /\ console' = console
          ELSE /\ UNCHANGED <<home_expenses, home_totalExpenses>>
               /\ alert' = Alert("Error", "Failed to load data. Please try again.")
               /\ console' = "Error loading data:"
       /\ UNCHANGED <<serverVars, route, storage, now, tzOffset, esVars, view, addVars,
                      local_expenses>>

\* A reset that also removes the budget amount from storage.
resetBudget_clearsAmount ==
  \E up \in Network :
    LET req == Request("DELETE", "/expenses", 0, NoBody)
        res == Send(req, up, db, nextId)
    IN /\ db' = res.db
       /\ nextId' = res.nextId
       /\ response' = Exchange(req, res)
       /\ storage' = [storage EXCEPT !.budget_amount = Absent]
       /\ IF Threw(res)
          THEN /\ alert' = Alert("Error", "Failed to reset budget")
               /\ UNCHANGED <<home_expenses, home_totalExpenses>>
          ELSE /\ home_expenses' = <<>>
               /\ home_totalExpenses' = 0
               /\ alert' = Alert("Success", "Budget period reset successfully!")
       /\ UNCHANGED <<route, now, tzOffset, console, esVars, home_budget, home_budgetType, view,
                      addVars, local_expenses>>

\* 'Reset' confirmed in the Reset Budget Period dialog.
resetBudget ==
  \E up \in Network :
    LET req == Request("DELETE", "/expenses", 0, NoBody)
        res == Send(req, up, db, nextId)
    IN /\ db' = res.db
       /\ nextId' = res.nextId
       /\ response' = Exchange(req, res)
       /\ IF Threw(res)
          THEN /\ alert' = Alert("Error", "Failed to reset budget")
               /\ UNCHANGED <<home_expenses, home_totalExpenses>>
          ELSE /\ home_expenses' = <<>>
               /\ home_totalExpenses' = 0
               /\ alert' = Alert("Success", "Budget period reset successfully!")
       /\ UNCHANGED <<route, storage, now, tzOffset, console, esVars, home_budget, home_budgetType, view,
                      addVars, local_expenses>>

\* The values a render of HomeScreen derives from budget and expenses.
\* percentageUsed is kept as its integer part: it is only compared with
\* whole thresholds.
totalSpent == SumAmounts(home_expenses)
\* A remaining that is cut off at 0.
remaining_clamped ==
  IF home_budget - totalSpent < 0 THEN 0 ELSE home_budget - totalSpent

remaining == home_budget - totalSpent
percentageUsed ==
  IF home_budget > 0 THEN (totalSpent * 100) \div home_budget ELSE 0

\* The thresholds tested from the least severe up.
getBudgetStatus_bottomUp ==
  IF percentageUsed >= 50 THEN "caution"
  ELSE IF percentageUsed >= 75 THEN "warning"
  ELSE IF percentageUsed >= 90 THEN "critical"
  ELSE IF remaining < 0 THEN "exceeded"
  ELSE "good"

\* The first test taken as remaining <= 0.
getBudgetStatus_exceededAtZero ==
  IF remaining <= 0 THEN "exceeded"
  ELSE IF percentageUsed >= 90 THEN "critical"
  ELSE IF percentageUsed >= 75 THEN "warning"
  ELSE IF percentageUsed >= 50 THEN "caution"
  ELSE "good"

getBudgetStatus ==
  IF remaining < 0 THEN "exceeded"
  ELSE IF percentageUsed >= 90 THEN "critical"
  ELSE IF percentageUsed >= 75 THEN "warning"
  ELSE IF percentageUsed >= 50 THEN "caution"
  ELSE "good"

\* (x / divisor).toFixed(2) in hundredths, for x > 0 and the divisors 7
\* and 4, where no quotient lies halfway between two hundredths.
toFixed2(x, divisor) == (2 * 100 * x + divisor) \div (2 * divisor)

DaysPerWeek == 7
WeeksPerMonth == 4

\* The suggested limit under the remaining amount: rendered when
\* remaining > 0, Absent otherwise.
allowance ==
  IF remaining > 0
  THEN LET divisor == IF home_budgetType = Some("weekly") THEN DaysPerWeek
                      ELSE WeeksPerMonth
       IN Some([label |-> IF home_budgetType = Some("weekly") THEN "daily" ELSE "weekly",
                divisor |-> divisor,
                hundredths |-> toFixed2(remaining, divisor)])
  ELSE Absent

\* Array.prototype.sort with (a, b) => time(b) - time(a): stable, newest
\* first.
RECURSIVE InsertByDate(_, _)
InsertByDate(e, sorted) ==
  IF sorted = <<>> THEN <<e>>
  ELSE IF Head(sorted).date.t >= e.date.t
  THEN <<Head(sorted)>> \o InsertByDate(e, Tail(sorted))
  ELSE <<e>> \o sorted

RECURSIVE SortByDateDesc(_)
SortByDateDesc(list) ==
  IF list = <<>> THEN <<>>
  ELSE InsertByDate(list[Len(list)], SortByDateDesc(SubSeq(list, 1, Len(list) - 1)))

\* expenses.sort(...).slice(0, 5)
RecentCount == 5

recentExpenses ==
  LET sorted == SortByDateDesc(home_expenses)
  IN SubSeq(sorted, 1, IF Len(sorted) < RecentCount THEN Len(sorted) ELSE RecentCount)

\* One render of HomeScreen; computing recentExpenses sorts the expenses
\* array in place.
render ==
  /\ view' = [totalSpent |-> totalSpent, remaining |-> remaining,
              percentageUsed |-> percentageUsed, status |-> getBudgetStatus,
              budget |-> home_budget, ids |-> Ids(home_expenses),
              allowance |-> allowance, recentExpenses |-> recentExpenses]
  /\ home_expenses' = SortByDateDesc(home_expenses)
  /\ UNCHANGED <<serverVars, outVars, storage, now, tzOffset, esVars, home_budget,
                 home_budgetType, home_totalExpenses, addVars, local_expenses>>

\* ------------------------------------------- onboarding and budget setup
\* Texts a user can leave in the budget amount field.
BudgetTexts == { <<"a">>, <<"0">>, <<"2">>, <<"3">> }

\* An onboarding that opens budget-setup before the type is stored.
handleSelect_pushFirst(type) ==
  /\ \E stored \in BOOLEAN :
       /\ storage' = IF stored THEN [storage EXCEPT !.budget_type = Some(type)]
                     ELSE storage
       /\ route' = "/budget-setup"
  /\ UNCHANGED <<serverVars, response, alert, now, tzOffset, console, esVars, homeVars,
                 view, addVars, local_expenses>>

\* An option of the onboarding screen pressed; when setItem rejects
\* (`stored` false) the handler ends there, before router.push.
handleSelect(type) ==
  /\ \E stored \in BOOLEAN :
       IF stored
       THEN /\ storage' = [storage EXCEPT !.budget_type = Some(type)]
            /\ route' = "/budget-setup"
       ELSE UNCHANGED <<storage, route>>
  /\ UNCHANGED <<serverVars, response, alert, now, tzOffset, console, esVars, homeVars, view, addVars,
                 local_expenses>>

\* 'Set Budget' pressed; the button is disabled while the field is empty.
\* `written` is the number of the two setItem calls that AsyncStorage
\* carried out before one rejected.
handleSetBudget(budgetAmount) ==
  /\ budgetAmount # <<>>
  /\ LET amount == parseFloat(budgetAmount)
     IN IF InvalidAmount(amount)
        THEN /\ alert' = Alert("Invalid Amount", "Please enter a valid budget amount")
             /\ UNCHANGED <<storage, route>>
        ELSE \E written \in 0..2 :
             LET amountSet == [storage EXCEPT !.budget_amount = Some(budgetAmount)]
             IN /\ storage' = CASE written = 0 -> storage
                                [] written = 1 -> amountSet
                                [] written = 2 -> [amountSet EXCEPT !.expenses = Some(<<>>)]
                /\ route' = IF written = 2 THEN "/(tabs)" ELSE route
                /\ alert' = IF written = 2 THEN alert
                            ELSE Alert("Error", "Failed to save budget")
  /\ UNCHANGED <<serverVars, response, now, tzOffset, console, esVars, homeVars, view, addVars,
                 local_expenses>>

\* 'Change Amount' or 'Change Type' in the Edit Budget dialog of HomeScreen.
handleEditBudget(choice) ==
  /\ route' = IF choice = "Change Amount" THEN "/budget-setup" ELSE "/onboarding"
  /\ UNCHANGED <<serverVars, response, alert, storage, now, tzOffset, console, esVars, homeVars,
                 view, addVars, local_expenses>>

\* The startup screen; `read` tells whether AsyncStorage.getItem answered.
checkOnboardingStatus ==
  /\ \E read \in BOOLEAN :
       IF read
       THEN /\ route' = IF storage.budget_type # Absent /\ storage.budget_amount # Absent
                        THEN "/(tabs)"
                        ELSE IF storage.budget_type # Absent THEN "/budget-setup"
                        ELSE "/onboarding"
            /\ console' = console
       ELSE /\ route' = "/onboarding"
            /\ console' = "Error checking onboarding status:"
  /\ UNCHANGED <<serverVars, response, alert, storage, now, tzOffset, esVars, homeVars, view,
                 addVars, local_expenses>>

\* ------------------------------------------------------------ AddExpense
\* storedExpenses ? JSON.parse(storedExpenses) : []
StoredExpenses == IF storage.expenses = Absent THEN <<>> ELSE storage.expenses[1]

\* Mount and focus run loadBudgetData.
loadBudgetData ==
  /\ \E read \in BOOLEAN :
       IF read
       THEN /\ add_budget' = StoredBudget(storage.budget_amount)
            /\ add_budgetType' = storage.budget_type
            /\ add_currentExpenses' = SumAmounts(StoredExpenses)
            /\ console' = console
       ELSE /\ console' = "Error loading budget data:"
            /\ UNCHANGED <<add_budget, add_budgetType, add_currentExpenses>>
  /\ UNCHANGED <<serverVars, response, alert, route, storage, now, tzOffset, esVars, homeVars,
                 view, pendingExpense, showBudgetWarning, local_expenses>>

\* An overflow check without the case of no budget.
checkBudgetOverflow_always(expenseAmount) == add_currentExpenses + expenseAmount > add_budget

checkBudgetOverflow(expenseAmount) ==
  IF add_budget = 0 THEN FALSE ELSE add_currentExpenses + expenseAmount > add_budget

getRemainingBudget == add_budget - add_currentExpenses

\* The record addExpenseToStorage pushes: id and date come from the clock.
newExpense(expenseAmount, category, noteText) ==
  [id |-> now, amount |-> expenseAmount, category |-> category,
   note |-> Some(noteText), date |-> IsoDate(now)]

\* addExpenseToStorage: read the blob, push, write it back, raise
\* currentExpenses, show the success alert; when AsyncStorage rejects
\* (`stored` false) only the failure alert is shown.
addExpenseToStorage(expenseAmount, category, noteText) ==
  /\ Len(StoredExpenses) < MaxLocal
  /\ add_currentExpenses + expenseAmount <= MaxSpent
  /\ \E stored \in BOOLEAN :
       IF stored
       THEN /\ storage' = [storage EXCEPT !.expenses =
                             Some(Append(StoredExpenses,
                                         newExpense(expenseAmount, category, noteText)))]
            /\ add_currentExpenses' = add_currentExpenses + expenseAmount
            /\ alert' = Alert("Expense Added!", "has been added to your expenses.")
       ELSE /\ alert' = Alert("Error", "Failed to add expense")
            /\ UNCHANGED <<storage, add_currentExpenses>>

\* 'Add Expense' pressed; the button is disabled while the amount or the
\* category is empty, and the form is covered while the warning is shown.
handleAddExpense(amount, selectedCategory, note) ==
  /\ amount # <<>> /\ selectedCategory # "" /\ ~showBudgetWarning
  /\ LET expenseAmount == parseFloat(amount)
     IN IF InvalidAmount(expenseAmount)
        THEN /\ alert' = Alert("Invalid Amount", "Please enter a valid expense amount")
             /\ UNCHANGED <<storage, add_currentExpenses, pendingExpense,
                            showBudgetWarning>>
        ELSE IF selectedCategory = ""
        THEN /\ alert' = Alert("Missing Category", "Please select a category")
             /\ UNCHANGED <<storage, add_currentExpenses, pendingExpense,
                            showBudgetWarning>>
        ELSE IF checkBudgetOverflow(expenseAmount.v)
        THEN /\ pendingExpense' = Some([amount |-> expenseAmount.v,
                                        category |-> selectedCategory,
                                        note |-> trim(note)])
             /\ showBudgetWarning' = TRUE
             /\ UNCHANGED <<storage, add_currentExpenses, alert>>
        ELSE /\ addExpenseToStorage(expenseAmount.v, selectedCategory, trim(note))
             /\ UNCHANGED <<pendingExpense, showBudgetWarning>>
  /\ UNCHANGED <<serverVars, response, route, now, tzOffset, console, esVars, homeVars, view, add_budget,
                 add_budgetType, local_expenses>>

\* A button of the budget warning: 'Add Anyway', 'Adjust Amount', 'Cancel'.
handleBudgetWarningResponse(action) ==
  /\ showBudgetWarning
  /\ showBudgetWarning' = FALSE
  /\ pendingExpense' = Absent
  /\ CASE action = "add" ->
            IF pendingExpense # Absent
            THEN addExpenseToStorage(pendingExpense[1].amount, pendingExpense[1].category,
                                     pendingExpense[1].note)
            ELSE UNCHANGED <<storage, add_currentExpenses, alert>>
       [] action = "adjust" ->
            /\ alert' = Alert("Amount Adjusted", "to stay within budget.")
            /\ UNCHANGED <<storage, add_currentExpenses>>
       [] action = "cancel" -> UNCHANGED <<storage, add_currentExpenses, alert>>
  /\ UNCHANGED <<serverVars, response, route, now, tzOffset, console, esVars, homeVars, view, add_budget,
                 add_budgetType, local_expenses>>

\* 'Increase Budget' in the budget warning.
increaseBudget ==
  /\ showBudgetWarning
  /\ showBudgetWarning' = FALSE
  /\ route' = "/budget-setup"
  /\ UNCHANGED <<serverVars, response, alert, storage, now, tzOffset, console, esVars, homeVars, view,
                 add_budget, add_currentExpenses, add_budgetType, pendingExpense,
                 local_expenses>>

\* The device clock advances.
tick ==
  /\ now < MaxClock
  /\ now' = now + 1
  /\ UNCHANGED <<serverVars, tzOffset, outVars, storage, esVars, homeVars, view, addVars,
                 local_expenses>>

\* ------------------------------------ ExpensesScreen (local-storage variant)
\* Mount, focus and pull-to-refresh all run loadExpenses.
local_loadExpenses ==
  /\ \E read \in BOOLEAN :
       IF read
       THEN /\ local_expenses' = SortByDateDesc(StoredExpenses)
            /\ console' = console
       ELSE /\ console' = "Error loading expenses:"
            /\ UNCHANGED local_expenses
  /\ UNCHANGED <<serverVars, response, alert, route, storage, now, tzOffset, esVars, homeVars,
                 view, addVars>>

\* 'Delete' confirmed for a listed expense: the in-memory list without it
\* is written back.
local_deleteExpense(expenseId, stored) ==
  /\ expenseId \in Ids(local_expenses)
  /\ LET updatedExpenses == WithoutId(local_expenses, expenseId)
     IN IF stored
        THEN /\ storage' = [storage EXCEPT !.expenses = Some(updatedExpenses)]
             /\ local_expenses' = updatedExpenses
             /\ alert' = alert
        ELSE /\ alert' = Alert("Error", "Failed to delete expense")
             /\ UNCHANGED <<storage, local_expenses>>
  /\ UNCHANGED <<serverVars, response, route, now, tzOffset, console, esVars, homeVars,
                 view, addVars>>

\* ------------------------------------------------------------ JS numbers
\* Amounts with a fraction.  A JS number is an IEEE-754 double: a 53-bit
\* significand times 2^exp.  Whole amounts are exact in a double and so are
\* their sums, which is why the screens above count in whole numbers; 0.10
\* is not.  A significand is kept in two limbs, hi * 2^28 + lo.
MantissaBits == 53
LimbBits == 28
Limb == 2^LimbBits

\* Extra low bits carried through an operation: guard, round and sticky.
ExtraBits == 3

Wide(hi, lo) == [hi |-> hi, lo |-> lo]

Zero == [sig |-> Wide(0, 0), exp |-> 0]

\* w * 2^k for 0 <= k < LimbBits.
WideShl(w, k) ==
  Wide(w.hi * 2^k + w.lo \div 2^(LimbBits - k), (w.lo % 2^(LimbBits - k)) * 2^k)

\* w \div 2^d for 0 <= d < LimbBits; lost: a 1 bit was shifted out.
ShrSmall(w, d) ==
  [hi |-> w.hi \div 2^d,
   lo |-> w.lo \div 2^d + (w.hi % 2^d) * 2^(LimbBits - d),
   lost |-> w.lo % 2^d # 0]

\* w \div 2^d with the bits shifted out folded into the lowest bit.
WideShrSticky(w, d) ==
  LET s == IF d < LimbBits THEN ShrSmall(w, d)
           ELSE IF d < 2 * LimbBits
           THEN [hi |-> 0, lo |-> w.hi \div 2^(d - LimbBits),
                 lost |-> w.hi % 2^(d - LimbBits) # 0 \/ w.lo # 0]
           ELSE [hi |-> 0, lo |-> 0, lost |-> w.hi # 0 \/ w.lo # 0]
  IN Wide(s.hi, IF s.lost /\ s.lo % 2 = 0 THEN s.lo + 1 ELSE s.lo)

WideAdd(a, b) ==
  Wide(a.hi + b.hi + (a.lo + b.lo) \div Limb, (a.lo + b.lo) % Limb)

\* Round to nearest, ties to even.  w holds MantissaBits + ExtraBits bits,
\* or one more after a carry, and stands for w * 2^(exp - ExtraBits).
RoundToDouble(w, exp) ==
  LET carried == w.hi >= Limb
      n == IF carried THEN WideShrSticky(w, 1) ELSE w
      e == IF carried THEN exp + 1 ELSE exp
      rest == n.lo % 2^ExtraBits
      kept == ShrSmall(n, ExtraBits)
      up == rest > 4 \/ (rest = 4 /\ kept.lo % 2 = 1)
      q == IF up THEN WideAdd(Wide(kept.hi, kept.lo), Wide(0, 1))
           ELSE Wide(kept.hi, kept.lo)
  IN IF q.hi >= 2^(MantissaBits - LimbBits)
     THEN [sig |-> Wide(2^(MantissaBits - LimbBits - 1), 0), exp |-> e + 1]
     ELSE [sig |-> q, exp |-> e]

\* sum + amount on two doubles that are not negative.
NumberAdd(x, y) ==
  IF x = Zero THEN y
  ELSE IF y = Zero THEN x
  ELSE LET big == IF x.exp >= y.exp THEN x ELSE y
           small == IF x.exp >= y.exp THEN y ELSE x
           aligned == WideShrSticky(WideShl(small.sig, ExtraBits), big.exp - small.exp)
       IN RoundToDouble(WideAdd(WideShl(big.sig, ExtraBits), aligned), big.exp)

\* Long division by 100 of a quotient followed by 'places' more binary
\* places, at most 24 places a step.
RECURSIVE DivideBy100(_, _, _)
DivideBy100(q, r, places) ==
  IF places = 0 THEN [q |-> q, r |-> r]
  ELSE LET k == IF places < 24 THEN places ELSE 24
           t == r * 2^k
           shifted == WideShl(q, k)
       IN DivideBy100(Wide(shifted.hi, shifted.lo + t \div 100), t % 100, places - k)

\* The double nearest to cents / 100: the number a decimal text with two
\* places parses to (parseFloat, JSON.parse), for 0 <= cents < 100 * 2^20.
NumberFromCents(cents) ==
  IF cents = 0 THEN Zero
  ELSE LET t == CHOOSE t \in -7..19 :
                  IF t >= 0 THEN 100 * 2^t <= cents /\ cents < 200 * 2^t
                  ELSE cents < 100 /\ 100 <= cents * 2^(0 - t) /\ cents * 2^(0 - t) < 200
           places == MantissaBits + ExtraBits - 1 - t
           d == DivideBy100(Wide(0, cents \div 100), cents % 100, places)
           jammed == IF d.r # 0 /\ d.q.lo % 2 = 0 THEN Wide(d.q.hi, d.q.lo + 1) ELSE d.q
       IN RoundToDouble(jammed, ExtraBits - places)

\* expenses.reduce((sum, expense) => sum + expense.amount, 0)
RECURSIVE reduceAmounts(_, _)
reduceAmounts(expenses, n) ==
  IF n = 0 THEN Zero
  ELSE NumberAdd(reduceAmounts(expenses, n - 1), expenses[n].amount)

\* ------------------------------------------------------- specifications
\* Bodies the model sends with a direct PUT.
PutBodies == { Body(Some(2), Some("Food"), Some(<<"n">>), Some(IsoDate(1500))) }

\* The body the model uses to fill the table seen by the screens.
SeedBody == Body(Some(1), Some("Food"), Some(<<"n">>), Some(IsoDate(1500)))

\* What the add form can hold when 'Add Expense' is pressed: the category
\* is unset or one of CATEGORIES.
AddCategories == {"", "Food"}
AddNotes == { <<" ", "n", " ">> }

\* The edit modal starts from the category of the row and can only move
\* to one of CATEGORIES.
EditCategories == CATEGORIES \cup {"Food"}

\* The server under every call of the hook.
NextServer ==
  \/ \E expense \in PostBodies : addExpense(expense)
  \/ \E id \in 1..MaxId : deleteExpense(id)
  \/ clearAllExpenses
  \/ \E id \in 1..MaxId, updated \in PutBodies : updateExpense(id, updated)

SpecServer == Init /\ [][NextServer]_vars

\* The backend variant: the server, another holder of the hook that adds
\* and deletes rows, and the ExpensesScreen that lists, edits and deletes
\* through the API.
NextApi ==
  \/ addExpense(SeedBody)
  \/ \E id \in 1..MaxId : deleteExpense(id)
  \/ loadExpenses
  \/ \E expense \in Elements(es_expenses) : openEditModal(expense)
  \/ closeEditModal
  \/ \E editAmount \in AmountTexts, editNote \in NoteTexts,
        editCategory \in EditCategories :
       saveEditedExpense(editAmount, editCategory, editNote)
  \/ \E expenseId \in Ids(es_expenses) : deleteExpenseHandler(expenseId)
  \/ clearAllExpensesHandler

SpecApi == Init /\ [][NextApi]_vars

\* The HomeScreen of the backend variant with the budget configuration it
\* reads and another holder of the hook that adds rows.
NextHome ==
  \/ addExpense(SeedBody)
  \/ \E type \in {"weekly", "monthly"} : handleSelect(type)
  \/ \E budgetAmount \in BudgetTexts : handleSetBudget(budgetAmount)
  \/ loadData
  \/ resetBudget

SpecHome == Init /\ [][NextHome]_vars

\* The on-device workflows at one clock instant: onboarding, budget setup
\* and the add-expense form with its budget warning.
NextDevice ==
  \/ \E type \in {"weekly", "monthly"} : handleSelect(type)
  \/ \E budgetAmount \in BudgetTexts : handleSetBudget(budgetAmount)
  \/ checkOnboardingStatus
  \/ loadBudgetData
  \/ \E amount \in AmountTexts, selectedCategory \in AddCategories, note \in AddNotes :
       handleAddExpense(amount, selectedCategory, note)
  \/ \E action \in {"add", "adjust", "cancel"} : handleBudgetWarningResponse(action)
  \/ increaseBudget

SpecDevice == Init /\ [][NextDevice]_vars

\* The local-storage variant: the add-expense form, budget setup, the
\* clock, and the ExpensesScreen that lists and deletes from AsyncStorage.
NextLocal ==
  \/ \E note \in AddNotes : handleAddExpense(<<"1">>, "Food", note)
  \/ handleSetBudget(<<"3">>)
  \/ tick
  \/ local_loadExpenses
  \/ \E expenseId \in Ids(local_expenses), stored \in BOOLEAN :
       local_deleteExpense(expenseId, stored)

SpecLocal == Init /\ [][NextLocal]_vars

\* The two forms of the backend variant next to what its list screens load:
\* the add-expense form, the edit modal of ExpensesScreen, the loads of
\* ExpensesScreen and HomeScreen, and another holder of the hook that adds
\* rows.
NextForms ==
  \/ addExpense(SeedBody)
  \/ loadExpenses
  \/ loadData
  \/ \E expense \in Elements(es_expenses) : openEditModal(expense)
  \/ closeEditModal
  \/ \E editAmount \in AmountTexts, editNote \in NoteTexts,
        editCategory \in EditCategories :
       saveEditedExpense(editAmount, editCategory, editNote)
  \/ \E amount \in AmountTexts, selectedCategory \in AddCategories, note \in AddNotes :
       handleAddExpense(amount, selectedCategory, note)

SpecForms == Init /\ [][NextForms]_vars

\* The calculator of HomeScreen over every budget and expense list within
\* the bounds.
CalcAmounts == (-1..MaxAmount) \ {0}

CalcLists ==
  { [i \in 1..n |->
       [id |-> i, amount |-> amounts[i], category |-> "Food", note |-> Absent,
        date |-> IsoDate(1000)]] :
    n \in 0..MaxList, amounts \in [1..MaxList -> CalcAmounts] }

InitCalc ==
  /\ InitOutsideHome
  /\ home_expenses \in CalcLists
  /\ home_budget \in 0..MaxBudget

NextCalc == render

SpecCalc == InitCalc /\ [][NextCalc]_vars


\* HomeScreen rendering what it loaded while the budget is set and another
\* holder of the hook adds rows.
StatusBodies ==
  { Body(Some(2), Some("Food"), Absent, Some(IsoDate(1500))),
    Body(Some(-1), Some("Food"), Some(<<"n">>), Some(IsoDate(1500))) }

NextStatus ==
  \/ \E expense \in StatusBodies : addExpense(expense)
  \/ \E type \in {"weekly", "monthly"} : handleSelect(type)
  \/ \E budgetAmount \in BudgetTexts : handleSetBudget(budgetAmount)
  \/ loadData
  \/ render

SpecStatus == Init /\ [][NextStatus]_vars

\* The recent-expenses view of HomeScreen over the rows 1..n in every
\* order a SELECT without ORDER BY may return them; rows with an odd id
\* share one timestamp and rows with an even id another.
RecentRow(id) ==
  [id |-> id, amount |-> 1, category |-> "Food", note |-> Absent,
   date |-> IsoDate(MsPerSecond * (1 + (id % 2)))]

RecentLists ==
  UNION { { [i \in 1..n |-> RecentRow(p[i])] : p \in Permutations(1..n) } :
          n \in 0..MaxRecent }

InitRecent ==
  /\ InitOutsideHome
  /\ home_expenses \in RecentLists
  /\ home_budget = 0

NextRecent == render

SpecRecent == InitRecent /\ [][NextRecent]_vars

\* Every handler that changes or removes stored expenses, with the adds
\* and loads that give them something to act on. The app is built with
\* one store: the screens of the server build run while the device holds
\* no 'expenses' blob, those of the local build while no request was made.
ServerBuild == storage.expenses = Absent

LocalBuild == response = NoResponse

NextFailure ==
  \/ /\ ServerBuild
     /\ \/ addExpense(SeedBody)
        \/ loadExpenses
        \/ \E expense \in Elements(es_expenses) : openEditModal(expense)
        \/ saveEditedExpense(<<"2">>, "Food", <<>>)
        \/ \E expenseId \in Ids(es_expenses) : deleteExpenseHandler(expenseId)
        \/ clearAllExpensesHandler
        \/ loadData
        \/ resetBudget
  \/ /\ LocalBuild
     /\ \/ handleAddExpense(<<"1">>, "Food", <<>>)
        \/ tick
        \/ local_loadExpenses
        \/ \E expenseId \in Ids(local_expenses), stored \in BOOLEAN :
             local_deleteExpense(expenseId, stored)

SpecFailure == Init /\ [][NextFailure]_vars

\* Every operation with a catch block: the handlers of SpecFailure, the
\* budget save and the load of the add-expense screen.
NextErrors ==
  \/ NextFailure
  \/ /\ LocalBuild
     /\ \/ handleSetBudget(<<"3">>)
        \/ loadBudgetData

SpecErrors == Init /\ [][NextErrors]_vars

\* The two variants fed the same requests: every step hands one create or
\* one delete to the server (POST /expenses, DELETE /expenses/:id, both
\* delivered) and to the local store (addExpenseToStorage; loadExpenses
\* followed by deleteExpense of the local ExpensesScreen). A delete names
\* the record by its position in creation order, the ids being assigned
\* by each store.
VariantAmounts == {-1, 0, 1}

VariantCategories == {"", "Food"}

variant_create(amount, category, note) ==
  LET req == Request("POST", "/expenses", 0,
                     Body(Some(amount), Some(category), Some(note), Some(IsoDate(now))))
      res == Send(req, "ok", db, nextId)
  IN /\ res.nextId <= MaxId + 1
     /\ db' = res.db
     /\ nextId' = res.nextId
     /\ response' = Exchange(req, res)
     /\ addExpenseToStorage(amount, category, note)
     /\ UNCHANGED <<route, now, tzOffset, console, esVars, homeVars, view, add_budget,
                    add_budgetType, pendingExpense, showBudgetWarning, local_expenses>>

variant_delete(position) ==
  /\ position <= Len(db) /\ position <= Len(StoredExpenses)
  /\ LET req == Request("DELETE", "/expenses/:id", db[position].id, NoBody)
         res == Send(req, "ok", db, nextId)
         loaded == SortByDateDesc(StoredExpenses)
         updatedExpenses == WithoutId(loaded, StoredExpenses[position].id)
     IN /\ db' = res.db
        /\ nextId' = res.nextId
        /\ response' = Exchange(req, res)
        /\ storage' = [storage EXCEPT !.expenses = Some(updatedExpenses)]
        /\ local_expenses' = updatedExpenses
  /\ UNCHANGED <<alert, route, now, tzOffset, console, esVars, homeVars, view, addVars>>

NextVariants ==
  \/ \E amount \in VariantAmounts, category \in VariantCategories :
       variant_create(amount, category, <<>>)
  \/ \E position \in 1..MaxId : variant_delete(position)
  \/ tick

SpecVariants == Init /\ [][NextVariants]_vars

\* The on-device configuration as the router lets the user reach it: the
\* startup screen runs at every launch, and a handler runs while the route
\* last handed to the router shows its screen.
SetupTexts == { <<"a">>, <<"0">>, <<"-", "1">>, <<"2">>, <<"3">>, <<"2", "a">> }

NextSetup ==
  \/ checkOnboardingStatus
  \/ /\ route = "/onboarding"
     /\ \E type \in {"weekly", "monthly"} : handleSelect(type)
  \/ /\ route = "/budget-setup"
     /\ \E budgetAmount \in SetupTexts : handleSetBudget(budgetAmount)
  \/ /\ route = "/(tabs)"
     /\ \/ \E choice \in {"Change Amount", "Change Type"} : handleEditBudget(choice)
        \/ loadBudgetData
        \/ handleAddExpense(<<"2">>, "Food", <<>>)
        \/ \E action \in {"add", "adjust", "cancel"} : handleBudgetWarningResponse(action)
        \/ increaseBudget

SpecSetup == Init /\ [][NextSetup]_vars

\* The server in a time zone west of, at and east of UTC, under adds with
\* a date on and off a whole second and the loads of both list screens.
ServerOffsets == {-3600, 0, 3600}

DateBodies ==
  { Body(Some(1), Some("Food"), Some(<<"n">>), Some(IsoDate(1500))),
    Body(Some(1), Some("Food"), Some(<<"n">>), Some(IsoDate(2000))) }

InitDates ==
  /\ InitOutsideZone
  /\ tzOffset \in ServerOffsets
  /\ home_expenses = <<>>
  /\ home_budget = 0
  /\ home_totalExpenses = 0

NextDates ==
  \/ \E expense \in DateBodies : addExpense(expense)
  \/ \E id \in 1..MaxId : deleteExpense(id)
  \/ loadExpenses
  \/ loadData

SpecDates == InitDates /\ [][NextDates]_vars

\* The add-expense screen next to the home screen of the API variant: the
\* loads of both, adds, and 'Reset Period'.
NextSpent ==
  \/ loadBudgetData
  \/ handleAddExpense(<<"1">>, "Food", <<>>)
  \/ tick
  \/ loadData
  \/ resetBudget

SpecSpent == Init /\ [][NextSpent]_vars

\* The total of HomeScreen over lists of amounts with a fraction: 0.10,
\* 0.20, 0.30 and 1.00, in every order the server can return them.
FractionCents == {10, 20, 30, 100}

FractionLists ==
  UNION { { [i \in 1..n |->
               [id |-> i, amount |-> NumberFromCents(cents[i]), category |-> "Food",
                note |-> Absent, date |-> IsoDate(1000)]] :
            cents \in [1..n -> FractionCents] } :
          n \in 0..MaxTerms }

InitTotals ==
  /\ InitOutsideTotals
  /\ home_expenses \in FractionLists
  /\ home_budget = 0
  /\ home_totalExpenses = Zero

\* const total = expensesData.reduce(...); setTotalExpenses(total) on the
\* list at hand.
setTotalExpenses ==
  /\ home_totalExpenses' = reduceAmounts(home_expenses, Len(home_expenses))
  /\ UNCHANGED <<serverVars, outVars, storage, now, tzOffset, esVars, home_expenses, home_budget,
                 home_budgetType, view, addVars, local_expenses>>

NextTotals == setTotalExpenses

SpecTotals == InitTotals /\ [][NextTotals]_vars


\* ------------------------------------------------------------ properties
\* C1: for every budget and expense list the status a render shows is the
\* first rule that matches, in this order: remaining < 0 gives exceeded;
\* else 90% or more of the budget spent gives critical; else 75% or more
\* gives warning; else 50% or more gives caution; else good.  The
\* percentage is spent / budget * 100 for a budget above 0 and 0 otherwise.
C1_StatusFirstMatch ==
  view.status # "" =>
    LET spent == SumAmounts(home_expenses)
        budget == home_budget
        atLeast(p) == budget > 0 /\ spent * 100 >= p * budget
    IN /\ view.remaining = budget - spent
       /\ (view.status = "exceeded") = (budget - spent < 0)
       /\ (view.status = "critical") = (budget - spent >= 0 /\ atLeast(90))
       /\ (view.status = "warning") = (budget - spent >= 0 /\ atLeast(75) /\ ~atLeast(90))
       /\ (view.status = "caution") = (budget - spent >= 0 /\ atLeast(50) /\ ~atLeast(75))
       /\ (view.status = "good") = (budget - spent >= 0 /\ ~atLeast(50))

\* A render that got past the first two rules: between 75% and 90% spent.
C1_Witness == view.status = "warning" /\ view.remaining > 0 /\ view.percentageUsed >= 75

\* C2: a press of 'Add Expense' or of 'Save' in the edit modal with an
\* amount text that is not a number or is <= 0, or with an empty category,
\* shows the rejection alert and changes neither AsyncStorage nor the
\* server table, and sends no HTTP request.
RejectedText(text) == isNaN(parseFloat(text)) \/ parseFloat(text).v <= 0

Rejection(shown) == shown.title \in {"Invalid Amount", "Missing Category"}

\* The amount texts the forms can hold, split by the amount check.
RejectedTexts == { text \in AmountTexts : RejectedText(text) }

AcceptedTexts == AmountTexts \ RejectedTexts

\* The form contents a press must reject: a rejected amount with any
\* category, or an accepted amount with no category.
RejectedForms(categories) ==
  (RejectedTexts \X categories) \cup (AcceptedTexts \X (categories \cap {""}))

RejectedAddForms == RejectedForms(AddCategories)

RejectedEditForms == RejectedForms(EditCategories \cup {""})

C2_RejectBeforeWrite ==
  [][ /\ \A form \in RejectedAddForms, note \in AddNotes :
           handleAddExpense(form[1], form[2], note)
           => /\ Rejection(alert')
              /\ UNCHANGED <<storage, db, nextId, response>>
      /\ \A form \in RejectedEditForms, editNote \in NoteTexts :
           saveEditedExpense(form[1], form[2], editNote)
           => /\ Rejection(alert')
              /\ UNCHANGED <<storage, db, nextId, response>>
    ]_vars

\* A rejection was shown while a stored expense and an open edit modal
\* exist.
C2_Witness ==
  /\ alert.title = "Invalid Amount"
  /\ StoredExpenses # <<>>
  /\ editingExpense # Absent


\* C3: every record the add-expense workflow created and the store still
\* holds is in the list the next successful load of ExpensesScreen and of
\* HomeScreen shows, with the same amount, category, note and date.
Listed(created, list) ==
  \E i \in 1..Len(list) :
    /\ list[i].amount = created.amount
    /\ list[i].category = created.category
    /\ list[i].note = created.note
    /\ list[i].date = created.date

C3_CreateThenList ==
  [][ /\ (loadExpenses /\ response'.status = 200)
        => \A created \in Elements(StoredExpenses) : Listed(created, es_expenses')
      /\ (loadData /\ response'.status = 200)
        => \A created \in Elements(StoredExpenses) : Listed(created, home_expenses')
    ]_vars


\* C4: a PUT /expenses/:id that reaches the server for an id in the table
\* is answered 200 or 204, and afterwards the table holds that row with the
\* supplied amount, category, note and date under the same id, every other
\* row as before.
C4_UpdateExisting ==
  [][ \A id \in 1..MaxId, updated \in PutBodies :
        ( /\ updateExpense(id, updated)
          /\ id \in Ids(db)
          /\ response'.status # 0 )
        => /\ response'.status \in {200, 204}
           /\ Len(db') = Len(db)
           /\ \A i \in 1..Len(db) :
                db'[i] = IF db[i].id = id
                         THEN [id |-> id, amount |-> updated.amount[1],
                               category |-> updated.category[1], note |-> updated.note,
                               date |-> updated.date[1].t \div MsPerSecond]
                         ELSE db[i]
    ]_vars

\* C7: every persisted expense, in the server table and in the 'expenses'
\* blob, has amount > 0.
C7_AmountsPositive ==
  /\ \A i \in 1..Len(db) : db[i].amount > 0
  /\ \A i \in 1..Len(StoredExpenses) : StoredExpenses[i].amount > 0

\* C8: a POST /expenses that reaches the server is answered 201 and
\* inserts the row when amount, category and date are present and valid
\* (amount > 0, category not empty, date a valid timestamp), and is
\* answered 400 with the table unchanged otherwise.
ValidBody(body) ==
  /\ body.amount # Absent /\ body.amount[1] > 0
  /\ body.category # Absent /\ body.category[1] # ""
  /\ body.date # Absent /\ body.date[1].valid

C8_PostAnswers ==
  [][ \A expense \in PostBodies :
        (addExpense(expense) /\ response'.status # 0)
        => IF ValidBody(expense)
           THEN /\ response'.status = 201
                /\ Len(db') = Len(db) + 1
                /\ db'[Len(db')].id = nextId
           ELSE /\ response'.status = 400
                /\ db' = db
    ]_vars


\* C5 as claimed: a reset that succeeded leaves the budget type, the
\* budget amount and the expenses all cleared, and a reset that did not
\* leaves all three as they were.
C5_ResetClearsAllThree ==
  [][ resetBudget =>
        \/ /\ storage'.budget_type = Absent
           /\ storage'.budget_amount = Absent
           /\ db' = <<>>
        \/ /\ storage' = storage
           /\ db' = db
    ]_vars

\* C5 as amended: a reset is one DELETE /expenses.  It leaves the server
\* table either empty or as it was, never partly cleared; when it is
\* answered 204 the table is empty and HomeScreen's list and total are
\* cleared, otherwise HomeScreen's list is as before; in every case the
\* budget type, the budget amount and the on-device 'expenses' blob are
\* untouched.
C5_ResetClearsExpensesOnly ==
  [][ resetBudget =>
        /\ storage' = storage
        /\ (db' = <<>> \/ db' = db)
        /\ IF response'.status = 204
           THEN db' = <<>> /\ home_expenses' = <<>> /\ home_totalExpenses' = 0
           ELSE home_expenses' = home_expenses
    ]_vars

\* A reset succeeded on a table that held rows, with type and amount set.
C5_Witness ==
  /\ alert = Alert("Success", "Budget period reset successfully!")
  /\ response = [method |-> "DELETE", path |-> "/expenses", status |-> 204]
  /\ db = <<>> /\ nextId > 1
  /\ storage.budget_type # Absent /\ storage.budget_amount # Absent


\* C6: selecting a budget type, setting or changing the budget amount and
\* 'Increase Budget' leave the list read from the 'expenses' blob as it
\* was.
C6_ConfigKeepsExpenses ==
  [][ ( \/ \E type \in {"weekly", "monthly"} : handleSelect(type)
        \/ \E budgetAmount \in BudgetTexts : handleSetBudget(budgetAmount)
        \/ increaseBudget )
      => StoredExpenses' = StoredExpenses
    ]_vars

\* C9: a delete of an id the store does not hold leaves the stored list as
\* it was, in the local-storage variant as in the server.
C9_DeleteAbsentKeepsList ==
  [][ /\ \A expenseId \in 1..MaxClock :
           (local_deleteExpense(expenseId, TRUE) /\ expenseId \notin Ids(StoredExpenses))
           => StoredExpenses' = StoredExpenses
      /\ \A id \in 1..MaxId :
           (deleteExpense(id) /\ id \notin Ids(db)) => db' = db
    ]_vars

\* C10: 'Save' in the edit modal for a record whose id the table does not
\* hold: the table is unchanged, ExpensesScreen's list and the modal are
\* unchanged, the failure alert is shown, and a PUT that is answered is
\* answered 404.
C10_UpdateAbsent ==
  [][ (editingExpense # Absent /\ editingExpense[1].id \notin Ids(db))
      => \A editAmount \in AcceptedTexts, editNote \in NoteTexts,
            editCategory \in EditCategories :
           saveEditedExpense(editAmount, editCategory, editNote)
           => /\ db' = db
              /\ es_expenses' = es_expenses
              /\ editingExpense' = editingExpense
              /\ alert' = Alert("Error", "Failed to update expense")
              /\ response'.method = "PUT"
              /\ response'.status \in {0, 404}
    ]_vars

\* A PUT for a listed record that the table no longer holds was answered
\* 404 while the table holds another row.
C10_Witness ==
  /\ response = [method |-> "PUT", path |-> "/expenses/:id", status |-> 404]
  /\ alert = Alert("Error", "Failed to update expense")
  /\ editingExpense # Absent
  /\ editingExpense[1].id \notin Ids(db)
  /\ editingExpense[1].id \in Ids(es_expenses)
  /\ db # <<>>


\* C11: every DELETE /expenses that is answered is answered 204 and leaves
\* the table empty, so that the next GET /expenses lists nothing; this
\* holds for a clear that follows a clear, whose table is already empty, as
\* for the first.
C11_ClearIdempotent ==
  [][ (clearAllExpenses /\ response'.status # 0)
      => /\ response'.status = 204
         /\ db' = <<>>
         /\ GetExpenses(db', nextId').status = 200
         /\ GetExpenses(db', nextId').rows = <<>>
         /\ (response = [method |-> "DELETE", path |-> "/expenses", status |-> 204]
              => db = <<>>)
    ]_vars

\* A clear was answered 204 on a table that held nothing.
C11_Witness ==
  /\ response = [method |-> "DELETE", path |-> "/expenses", status |-> 204]
  /\ db = <<>>
  /\ nextId = 1


\* C12: no two persisted expenses share an id, in the server table and in
\* the 'expenses' blob, two expenses the add form stored at the same clock
\* reading included.
C12_IdsUnique ==
  /\ \A i, j \in 1..Len(db) : i # j => db[i].id # db[j].id
  /\ \A i, j \in 1..Len(StoredExpenses) :
       i # j => StoredExpenses[i].id # StoredExpenses[j].id


\* The sum of the amounts of the first n expenses of a list.
RECURSIVE AmountSum(_, _)
AmountSum(list, n) ==
  IF n = 0 THEN 0 ELSE AmountSum(list, n - 1) + list[n].amount

\* C13: for every budget above 0 and every expense list, the remaining
\* value a render shows is the budget minus the sum of all expense
\* amounts, below 0 when more than the budget was spent.
C13_RemainingIsBudgetMinusSpent ==
  (view.status # "" /\ home_budget > 0)
  => /\ view.remaining = home_budget - AmountSum(home_expenses, Len(home_expenses))
     /\ (AmountSum(home_expenses, Len(home_expenses)) > home_budget
         => view.remaining < 0)

\* A render showed a negative remaining for a budget above 0.
C13_Witness ==
  /\ view.status # ""
  /\ home_budget > 0
  /\ view.remaining < 0
  /\ Len(home_expenses) = MaxList


\* C14: the total of an expense list is the same for every permutation of
\* the list.
C14_TotalOrderFree ==
  home_totalExpenses # Zero
  => \A p \in Permutations(1..Len(home_expenses)) :
       reduceAmounts([i \in 1..Len(home_expenses) |-> home_expenses[p[i]]],
                     Len(home_expenses)) = home_totalExpenses


\* C15: a render with the budget unset or 0 reports percentageUsed as a
\* sentinel and remaining as 'no budget': neither is reported as a number.
C15_NoBudgetSentinel ==
  (view.status # "" /\ home_budget = 0)
  => /\ view.percentageUsed \notin Int
     /\ view.remaining \notin Int


Severity(status) ==
  CASE status = "good" -> 0
    [] status = "caution" -> 1
    [] status = "warning" -> 2
    [] status = "critical" -> 3
    [] status = "exceeded" -> 4

C17_SeverityMonotonic ==
  [][ (render /\ view.status # "" /\ view.budget = home_budget /\ home_budget > 0)
      => /\ ( /\ view.remaining >= 0
              /\ view'.remaining >= 0
              /\ view'.percentageUsed >= view.percentageUsed )
            => Severity(view'.status) >= Severity(view.status)
         /\ (view.ids \subseteq view'.ids /\ view.ids # view'.ids)
            => Severity(view'.status) >= Severity(view.status)
    ]_vars


Newer(a, b) == a.date.t > b.date.t \/ (a.date.t = b.date.t /\ a.id < b.id)

C19_RecentDeterministic ==
  [][ render
      => LET rows == Elements(home_expenses)
             shown == view'.recentExpenses
         IN /\ Len(shown) = (IF Len(home_expenses) < 5 THEN Len(home_expenses) ELSE 5)
            /\ \A i \in 1..Len(shown) :
                 /\ shown[i] \in rows
                 /\ Cardinality({ r \in rows : Newer(r, shown[i]) }) = i - 1
            /\ view.status # "" => shown = view.recentExpenses
    ]_vars


\* What C20 is about: the step is one of the handlers that update, delete,
\* clear or reset, and its request failed.
FailedRequest(method, path) ==
  /\ response'.method = method
  /\ response'.path = path
  /\ Threw(response')

ListsUnchanged ==
  /\ es_expenses' = es_expenses
  /\ home_expenses' = home_expenses
  /\ local_expenses' = local_expenses
  /\ storage' = storage

FailedUpdate ==
  FailedRequest("PUT", "/expenses/:id") /\ saveEditedExpense(<<"2">>, "Food", <<>>)

FailedDelete(expenseId) ==
  FailedRequest("DELETE", "/expenses/:id") /\ deleteExpenseHandler(expenseId)

FailedClear ==
  FailedRequest("DELETE", "/expenses") /\ (clearAllExpensesHandler \/ resetBudget)

FailedLocalDelete(expenseId) ==
  /\ alert' = Alert("Error", "Failed to delete expense")
  /\ local_deleteExpense(expenseId, FALSE)

\* C20 as claimed: when the request of an update, a delete, a clear or a
\* reset fails, the store is as it was before and no screen's list is
\* changed.
C20_FailureKeepsStore ==
  [][ /\ FailedUpdate => (db' = db /\ ListsUnchanged)
      /\ \A expenseId \in 1..MaxId :
           FailedDelete(expenseId) => (db' = db /\ ListsUnchanged)
      /\ FailedClear => (db' = db /\ ListsUnchanged)
      /\ \A expenseId \in Ids(local_expenses) :
           FailedLocalDelete(expenseId) => ListsUnchanged
    ]_vars

\* C20, amended: when the request of an update, a delete, a clear or a
\* reset fails, no screen's list is changed; the store is as it was
\* before when the failure was answered by the server or came from device
\* storage, and otherwise it is either as it was before or as the whole
\* request leaves it.
C20_FailureKeepsList ==
  [][ /\ FailedUpdate
         => /\ ListsUnchanged
            /\ editingExpense' = editingExpense
            /\ response'.status # 0 => db' = db
            /\ Len(db') = Len(db)
            /\ \A i \in 1..Len(db) :
                 /\ db'[i].id = db[i].id
                 /\ db'[i] # db[i] => db[i].id = editingExpense[1].id
      /\ \A expenseId \in 1..MaxId :
           FailedDelete(expenseId)
           => /\ ListsUnchanged
              /\ response'.status # 0 => db' = db
              /\ db' \in {db, SelectSeq(db, LAMBDA row : row.id # expenseId)}
      /\ FailedClear
         => /\ ListsUnchanged
            /\ response'.status # 0 => db' = db
            /\ db' \in {db, <<>>}
      /\ \A expenseId \in Ids(local_expenses) :
           FailedLocalDelete(expenseId) => (ListsUnchanged /\ db' = db)
    ]_vars

C20_Witness ==
  /\ response = [method |-> "DELETE", path |-> "/expenses", status |-> 0]
  /\ alert = Alert("Error", "Failed to clear expenses")
  /\ es_expenses # <<>>
  /\ db = <<>>


\* C21: once a row the server had created is gone from the table, no
\* request brings it back: it is in no later answer of GET /expenses, and
\* a PUT /expenses/:id on its id that is answered is answered 404.
C21_DeleteWins ==
  [][ \A id \in 1..MaxId :
        (id < nextId /\ id \notin Ids(db))
        => /\ id \notin Ids(GetExpenses(db', nextId').rows)
           /\ \A updated \in PutBodies :
                (updateExpense(id, updated) /\ response'.status # 0)
                => response'.status = 404
    ]_vars

C21_Witness ==
  /\ response = [method |-> "PUT", path |-> "/expenses/:id", status |-> 404]
  /\ nextId = 2
  /\ db = <<>>


\* C22: a step in which a load, an add, an update, a delete, a clear or a
\* budget save failed leaves an error message on the console, and an
\* error alert on the screen when the user started it (the loads of the
\* list screens are also started by pull-to-refresh).
Logged == console' # ""

Reported == alert'.title = "Error"

FailedFetch ==
  /\ response'.method = "GET"
  /\ response'.status # 200
  /\ (loadExpenses \/ loadData)

FailedLocalLoad ==
  /\ local_expenses' # SortByDateDesc(StoredExpenses)
  /\ local_loadExpenses

FailedAdd ==
  /\ storage' = storage
  /\ ~checkBudgetOverflow(1)
  /\ handleAddExpense(<<"1">>, "Food", <<>>)

FailedBudgetSave ==
  /\ storage'.budget_amount # Some(<<"3">>) \/ storage'.expenses # Some(<<>>)
  /\ handleSetBudget(<<"3">>)

FailedBudgetLoad ==
  /\ add_currentExpenses' # SumAmounts(StoredExpenses)
  /\ loadBudgetData

C22_NoSilentFailure ==
  [][ /\ FailedFetch => (Logged /\ Reported)
      /\ FailedLocalLoad => (Logged /\ Reported)
      /\ FailedBudgetLoad => Logged
      /\ FailedAdd => (Logged /\ Reported)
      /\ FailedBudgetSave => (Logged /\ Reported)
      /\ FailedUpdate => (Logged /\ Reported)
      /\ (\E expenseId \in 1..MaxId : FailedDelete(expenseId)) => (Logged /\ Reported)
      /\ (\E expenseId \in Ids(local_expenses) : FailedLocalDelete(expenseId))
         => (Logged /\ Reported)
      /\ FailedClear => (Logged /\ Reported)
    ]_vars


\* C23: fed the same creates and deletes, the server and the local store
\* accept or reject each request alike and hold the same records, the ids
\* and the dates each store assigns left aside (steps in which the device
\* storage itself failed are not compared).
Record(row) == [amount |-> row.amount, category |-> row.category, note |-> row.note]

Records(rows) == [i \in 1..Len(rows) |-> Record(rows[i])]

SameRecords(rows, list) ==
  /\ Len(rows) = Len(list)
  /\ \A r \in Elements(Records(rows)) \cup Elements(Records(list)) :
       Cardinality({ i \in 1..Len(rows) : Record(rows[i]) = r })
       = Cardinality({ i \in 1..Len(list) : Record(list[i]) = r })

C23_SameSemantics ==
  [][ alert'.title # "Error"
      => /\ \A amount \in VariantAmounts, category \in VariantCategories :
              variant_create(amount, category, <<>>)
              => (response'.status = 201 <=> storage' # storage)
         /\ SameRecords(db, StoredExpenses) => SameRecords(db', StoredExpenses')
    ]_vars


\* C24: 'Set Budget' with a text that is not a number or is <= 0 shows the
\* invalid-amount alert and writes nothing; a budget_amount that is
\* stored parses to a number > 0; and the text a budget save stores
\* parses to the value the save validated.
C24_BudgetPositive ==
  [][ /\ \A budgetAmount \in SetupTexts :
           handleSetBudget(budgetAmount)
           => IF isNaN(parseFloat(budgetAmount)) \/ parseFloat(budgetAmount).v <= 0
              THEN /\ storage' = storage
                   /\ alert' = Alert("Invalid Amount", "Please enter a valid budget amount")
              ELSE storage'.budget_amount # storage.budget_amount
                   => StoredBudget(storage'.budget_amount) = parseFloat(budgetAmount).v
      /\ storage'.budget_amount # Absent
         => /\ ~isNaN(parseFloat(storage'.budget_amount[1]))
            /\ parseFloat(storage'.budget_amount[1]).v > 0
    ]_vars

C24_Witness ==
  /\ storage.budget_amount = Some(<<"2", "a">>)
  /\ add_budget = 2


\* C25: the date of an expense that POST /expenses stored comes back from
\* GET /expenses as the instant that was sent, to the second, whatever
\* the time zone of the server.
SameSecond(a, b) ==
  a.valid /\ b.valid /\ a.t \div MsPerSecond = b.t \div MsPerSecond

C25_DateRoundTrip ==
  [][ \A expense \in DateBodies :
        (response'.status = 201 /\ addExpense(expense))
        => LET rows == GetExpenses(db', nextId').rows
           IN SameSecond(rows[Len(rows)].date, expense.date[1])
    ]_vars


\* C26: a stored budget_amount comes with a stored budget_type; and the
\* startup check routes to the tabs when both are stored, to budget-setup
\* when only the type is stored, and to onboarding otherwise, also when
\* reading storage failed.
C26_TypeBeforeAmount ==
  [][ /\ storage'.budget_amount # Absent => storage'.budget_type # Absent
      /\ checkOnboardingStatus
         => /\ route' \in {"/(tabs)", "/budget-setup", "/onboarding"}
            /\ route' = "/(tabs)"
               => (storage.budget_type # Absent /\ storage.budget_amount # Absent)
            /\ route' = "/budget-setup"
               => (storage.budget_type # Absent /\ storage.budget_amount = Absent)
            /\ route' = "/onboarding"
               => \/ storage.budget_type = Absent
                  \/ console' = "Error checking onboarding status:"
            /\ storage.budget_type = Absent => route' = "/onboarding"
    ]_vars

C26_Witness ==
  /\ route = "/onboarding"
  /\ console = "Error checking onboarding status:"
  /\ storage.budget_type # Absent
  /\ storage.budget_amount # Absent


\* C27: a delete that the local expenses screen wrote to storage removed
\* the targeted id and nothing else: every stored expense with another id
\* is still stored, also one that was added after the screen last loaded.
C27_DeleteKeepsOthers ==
  [][ \A expenseId \in Ids(local_expenses) :
        (storage' # storage /\ local_deleteExpense(expenseId, TRUE))
        => /\ expenseId \notin Ids(StoredExpenses')
           /\ \A expense \in Elements(StoredExpenses) :
                expense.id # expenseId => expense \in Elements(StoredExpenses')
    ]_vars


\* C28: the budget warning is raised exactly for a valid entry that takes
\* current spent over a budget > 0, and raising it persists nothing; an
\* expense is persisted either without a warning or by 'Add Anyway',
\* which persists the pending expense once and closes the warning;
\* 'Cancel', 'Adjust Amount' and 'Increase Budget' persist nothing; with
\* budget 0 no warning is raised.
Overflows(expenseAmount) ==
  add_budget > 0 /\ add_currentExpenses + expenseAmount > add_budget

Persisted(expense) ==
  /\ Len(StoredExpenses') = Len(StoredExpenses) + 1
  /\ SubSeq(StoredExpenses', 1, Len(StoredExpenses)) = StoredExpenses
  /\ Record(StoredExpenses'[Len(StoredExpenses')])
     = [amount |-> expense.amount, category |-> expense.category,
        note |-> Some(expense.note)]

C28_WarningGate ==
  [][ /\ (showBudgetWarning' /\ ~showBudgetWarning)
         => /\ storage' = storage
            /\ pendingExpense' # Absent
            /\ Overflows(pendingExpense'[1].amount)
      /\ (~showBudgetWarning /\ Len(StoredExpenses') > Len(StoredExpenses))
         => ~Overflows(StoredExpenses'[Len(StoredExpenses')].amount)
      /\ (add_budget = 0 /\ ~showBudgetWarning) => ~showBudgetWarning'
      /\ (handleBudgetWarningResponse("add") /\ alert'.title # "Error")
         => /\ pendingExpense # Absent => Persisted(pendingExpense[1])
            /\ pendingExpense' = Absent
            /\ ~showBudgetWarning'
      /\ ( \/ handleBudgetWarningResponse("cancel")
           \/ handleBudgetWarningResponse("adjust")
           \/ increaseBudget )
         => (storage' = storage /\ ~showBudgetWarning')
    ]_vars

C28_Witness ==
  /\ alert = Alert("Expense Added!", "has been added to your expenses.")
  /\ add_budget > 0
  /\ add_currentExpenses > add_budget
  /\ ~showBudgetWarning
  /\ SumAmounts(StoredExpenses) = add_currentExpenses


\* C29: 'Adjust Amount' puts budget minus current spent in the amount
\* field, and that amount passes the checks of 'Add Expense': it is a
\* number > 0, it raises no warning, and with it total spent stays within
\* the budget.
C29_AdjustedAmountValid ==
  [][ handleBudgetWarningResponse("adjust")
      => LET adjusted == parseFloat(toString(getRemainingBudget))
         IN /\ ~isNaN(adjusted)
            /\ adjusted.v = add_budget' - add_currentExpenses'
            /\ adjusted.v > 0
            /\ ~checkBudgetOverflow(adjusted.v)
            /\ add_currentExpenses' + adjusted.v <= add_budget'
    ]_vars


\* C30: what the add-expense screen loads as currentExpenses is the sum of
\* the amounts the home screen lists; a successful add raises
\* currentExpenses by the added amount and a failed add leaves it; and
\* after a successful 'Reset Period' the add-expense screen loads 0.
C30_SpentMatchesHome ==
  [][ /\ (add_currentExpenses' = SumAmounts(StoredExpenses) /\ loadBudgetData)
         => add_currentExpenses' = SumAmounts(GetExpenses(db, nextId).rows)
      /\ handleAddExpense(<<"1">>, "Food", <<>>)
         => add_currentExpenses'
            = add_currentExpenses + (IF storage' # storage THEN 1 ELSE 0)
      /\ (response'.status = 204 /\ resetBudget)
         => SumAmounts(StoredExpenses') = 0
    ]_vars

====
